---------------------------- MODULE Spec2Model ----------------------------
(***************************************************************************)
(* Model of src/index.js: an Express server that receives lead webhooks,   *)
(* normalises their fields and forwards them to Salesforce through a       *)
(* shared jsforce connection.                                              *)
(*                                                                         *)
(* JavaScript strings are TLA+ strings; Len, \o and SubSeq act on them.    *)
(* Other JavaScript values are tagged records (Undefined, Str, Num, Obj).  *)
(***************************************************************************)
EXTENDS Naturals, Sequences, FiniteSets, TLC

---------------------------------------------------------------------------
(* JavaScript values                                                       *)

Undefined == [t |-> "undefined"]

Str(s) == [t |-> "string", v |-> s]

Num(n) == [t |-> "number", n |-> n]

\* A property inherited from Object.prototype (a function or an object).
Obj(name) == [t |-> "object", ref |-> name]

IsStr(x) == x.t = "string"

\* ToBoolean: undefined, "" and 0 are falsy.
Truthy(x) ==
  CASE x.t = "undefined" -> FALSE
    [] x.t = "string" -> x.v # ""
    [] x.t = "number" -> x.n # 0
    [] OTHER -> TRUE

\* a || b
Or(a, b) == IF Truthy(a) THEN a ELSE b

\* obj[key] of a parsed JSON body: an absent key reads as undefined.
Get(body, key) == IF key \in DOMAIN body THEN body[key] ELSE Undefined

---------------------------------------------------------------------------
(* String built-ins                                                        *)

CharAt(s, i) == SubSeq(s, i, i)

UpperChars == "ABCDEFGHIJKLMNOPQRSTUVWXYZ"

LowerChars == "abcdefghijklmnopqrstuvwxyz"

LowerChar(c) ==
  IF \E i \in 1..Len(UpperChars) : CharAt(UpperChars, i) = c
  THEN CharAt(LowerChars, CHOOSE i \in 1..Len(UpperChars) : CharAt(UpperChars, i) = c)
  ELSE c

RECURSIVE ToLowerCase(_)
\* String.prototype.toLowerCase
ToLowerCase(s) ==
  IF s = "" THEN ""
  ELSE LowerChar(CharAt(s, 1)) \o ToLowerCase(SubSeq(s, 2, Len(s)))

\* The white space String.prototype.trim strips.
IsWhiteSpace(c) == c \in {" ", "\t", "\n", "\r"}

RECURSIVE TrimStart(_)
TrimStart(s) ==
  IF s # "" /\ IsWhiteSpace(CharAt(s, 1)) THEN TrimStart(SubSeq(s, 2, Len(s))) ELSE s

RECURSIVE TrimEnd(_)
TrimEnd(s) ==
  IF s # "" /\ IsWhiteSpace(CharAt(s, Len(s))) THEN TrimEnd(SubSeq(s, 1, Len(s) - 1)) ELSE s

\* String.prototype.trim
Trim(s) == TrimEnd(TrimStart(s))

\* String.prototype.includes
Includes(text, pat) ==
  \E i \in 1..(Len(text) + 1) :
    i + Len(pat) - 1 <= Len(text) /\ SubSeq(text, i, i + Len(pat) - 1) = pat

RECURSIVE SplitFrom(_, _, _, _)
\* Scans s from index i; cur is the piece collected so far.
SplitFrom(s, sep, i, cur) ==
  IF i > Len(s) THEN <<cur>>
  ELSE IF CharAt(s, i) = sep THEN <<cur>> \o SplitFrom(s, sep, i + 1, "")
  ELSE SplitFrom(s, sep, i + 1, cur \o CharAt(s, i))

\* String.prototype.split with a one-character separator: every occurrence of
\* the separator cuts, so adjacent separators give empty pieces.
Split(s, sep) == SplitFrom(s, sep, 1, "")

RECURSIVE Join(_, _)
\* Array.prototype.join
Join(parts, sep) ==
  IF Len(parts) = 0 THEN ""
  ELSE IF Len(parts) = 1 THEN parts[1]
  ELSE parts[1] \o sep \o Join(Tail(parts), sep)

\* Array.prototype.slice(1)
Slice1(parts) == IF Len(parts) = 0 THEN <<>> ELSE Tail(parts)

\* String(x) as done by string concatenation and by toString().
ToStringJS(x) ==
  CASE x.t = "string" -> x.v
    [] x.t = "number" -> CharAt("0123456789", x.n + 1)
    [] x.t = "undefined" -> "undefined"
    [] OTHER -> "[object Object]"

---------------------------------------------------------------------------
(* Field normaliser                                                        *)

\* splitName(fullName = ''), on a string.
splitName(fullName) ==
  LET parts == Split(Trim(fullName), " ")
      first == parts[1]
      rest  == Join(Slice1(parts), " ")
  IN [firstName |-> IF first # "" THEN first ELSE "Unknown",
      lastName  |-> IF rest # "" THEN rest ELSE "Lead"]

detectProjectTypeKitchenFirst(projectInput, scopeInput) ==
  LET textToScan == ToLowerCase(projectInput \o " " \o scopeInput)
  IN IF Includes(textToScan, "kitchen") THEN Str("Kitchen")
     ELSE IF Includes(textToScan, "kitchen remodeling") THEN Str("Kitchen remodeling")
     ELSE IF Includes(textToScan, "bathroom remodeling") THEN Str("Bathroom remodeling")
     ELSE IF Includes(textToScan, "full home") THEN Str("Full Home Remodel")
     ELSE IF Includes(textToScan, "whole house") THEN Str("Full Home Remodel")
     ELSE IF Includes(textToScan, "new room") THEN Str("New room addition")
     ELSE IF Includes(textToScan, "home interior") THEN Str("Home interior design")
     ELSE IF Includes(textToScan, "interior design") THEN Str("Home interior design")
     ELSE IF Includes(textToScan, "bath") THEN Str("Bathroom")
     ELSE IF Includes(textToScan, "basement") THEN Str("Basement")
     ELSE IF Includes(textToScan, "exterior") THEN Str("Exterior")
     ELSE IF Includes(textToScan, "deck") THEN Str("Exterior")
     ELSE IF Includes(textToScan, "roof") THEN Str("Exterior")
     ELSE IF Includes(textToScan, "adu") THEN Str("ADU")
     ELSE IF Includes(textToScan, "addition") THEN Str("Addition")
     ELSE IF Includes(textToScan, "remodel") THEN Str("Remodeling")
     ELSE Undefined

\* detectProjectType(projectInput, scopeInput), on two strings.
detectProjectType(projectInput, scopeInput) ==
  LET textToScan == ToLowerCase(projectInput \o " " \o scopeInput)
  IN IF Includes(textToScan, "kitchen remodeling") THEN Str("Kitchen remodeling")
     ELSE IF Includes(textToScan, "bathroom remodeling") THEN Str("Bathroom remodeling")
     ELSE IF Includes(textToScan, "full home") THEN Str("Full Home Remodel")
     ELSE IF Includes(textToScan, "whole house") THEN Str("Full Home Remodel")
     ELSE IF Includes(textToScan, "new room") THEN Str("New room addition")
     ELSE IF Includes(textToScan, "home interior") THEN Str("Home interior design")
     ELSE IF Includes(textToScan, "interior design") THEN Str("Home interior design")
     ELSE IF Includes(textToScan, "kitchen") THEN Str("Kitchen")
     ELSE IF Includes(textToScan, "bath") THEN Str("Bathroom")
     ELSE IF Includes(textToScan, "basement") THEN Str("Basement")
     ELSE IF Includes(textToScan, "exterior") THEN Str("Exterior")
     ELSE IF Includes(textToScan, "deck") THEN Str("Exterior")
     ELSE IF Includes(textToScan, "roof") THEN Str("Exterior")
     ELSE IF Includes(textToScan, "adu") THEN Str("ADU")
     ELSE IF Includes(textToScan, "addition") THEN Str("Addition")
     ELSE IF Includes(textToScan, "remodel") THEN Str("Remodeling")
     ELSE Undefined

\* The own properties of the object literal `map` in mapLeadSource.
LeadSourceMap ==
  [k \in {"google lsa", "google calls", "google form", "yelp", "houzz",
          "angi", "porch", "thumbtack", "meta"} |->
     CASE k = "google lsa" -> "Google LSA"
       [] k = "google calls" -> "Google Calls"
       [] k = "google form" -> "Google Form"
       [] k = "yelp" -> "Yelp"
       [] k = "houzz" -> "Houzz"
       [] k = "angi" -> "Angi"
       [] k = "porch" -> "Porch"
       [] k = "thumbtack" -> "Thumbtack"
       [] k = "meta" -> "Meta"]

\* `map` is an object literal, so map[key] also finds what Object.prototype
\* holds.  Its property names are constructor, __proto__, hasOwnProperty,
\* isPrototypeOf, propertyIsEnumerable, toLocaleString, toString, valueOf,
\* __defineGetter__, __defineSetter__, __lookupGetter__, __lookupSetter__;
\* the lookup key is lower-cased, so only the two all-lower-case names can
\* be hit.
ObjectPrototypeKeys == {"constructor", "__proto__"}

\* map[key]
MapLookup(key) ==
  IF key \in DOMAIN LeadSourceMap THEN Str(LeadSourceMap[key])
  ELSE IF key \in ObjectPrototypeKeys THEN Obj(key)
  ELSE Undefined

\* mapLeadSource(source), on any JavaScript value.
mapLeadSource(source) ==
  IF ~Truthy(source) THEN Str("Referral")
  ELSE Or(MapLookup(Trim(ToLowerCase(ToStringJS(source)))), Str("Referral"))

---------------------------------------------------------------------------
(* Bounds and input sets                                                   *)

\* Number of inbound HTTP requests in a run.
NumRequests == 2

Requests == 1..NumRequests

\* Who can have called connectSalesforce: module start-up (0) or a request.
Startup == 0

Owners == {Startup} \cup Requests

\* Access tokens the OAuth token endpoint may hand out.
Tokens == {"AT1"}

\* Record identifiers the CRM may return from a create call.
LeadIds == {"00Q1", "00Q2"}

\* Message of the error a create call may throw while a token is held.
CreateErrors == {"REQUIRED_FIELD_MISSING"}

\* Message of the error a create call throws when no token is held.
NoTokenError == "INVALID_SESSION_ID"

\* Values of process.env.X_API_KEY (unset or set).
ApiKeyConfigs == {Undefined, Str("secret")}

\* Values of the x-api-key request header.
ApiKeyHeaders == {Undefined, Str("secret"), Str("wrong")}

EmptyBody == [k \in {} |-> Undefined]

\* The body of the specification's end-to-end example.
JaneDoe ==
  [full_name |-> Str("Jane Doe"), source |-> Str("Yelp"),
   project_type |-> Str(""), scope |-> Str("bathroom remodeling needed")]

\* Parsed JSON bodies of POST /lead: the example, one with alias keys and a
\* source that is no label, and one whose full_name is a number.
Bodies ==
  { JaneDoe,
    [Name |-> Str("Sam"), Source |-> Str("Craigslist"), phone |-> Str("555")],
    [full_name |-> Num(7), source |-> Str("meta")] }

\* The requests a client may send: POST /lead with the right key and each
\* body, POST /lead with a missing or wrong key, and GET requests to /health
\* and to a path no route serves.
InboundRequests ==
  { [method |-> "POST", path |-> "/lead", apiKey |-> Str("secret"), body |-> b] :
      b \in Bodies }
  \cup
  { [method |-> "POST", path |-> "/lead", apiKey |-> k, body |-> JaneDoe] :
      k \in ApiKeyHeaders }
  \cup
  { [method |-> "GET", path |-> p, apiKey |-> k, body |-> EmptyBody] :
      p \in {"/health", "/other"}, k \in {Undefined, Str("secret")} }

NoRequest == [none |-> TRUE]

NoResponse == [none |-> TRUE]

NoCall == [none |-> TRUE]

---------------------------------------------------------------------------
(* State                                                                   *)

VARIABLES
  env,          \* process.env.X_API_KEY
  conn,         \* the shared jsforce connection: accessToken, instanceUrl, refreshToken
  refresh,      \* per owner: its connectSalesforce call: "none", "inflight", "ok", "failed"
  req,          \* per request: the request received, NoRequest before it arrives
  pc,           \* per request: "Idle", "Authorizing", "Submitting", "Responded"
  trace,        \* per request: the phases of the /lead handler it went through, in order
  observed,     \* per request: conn.accessToken as read on entry to the /lead handler
  norm,         \* per request: the handler's locals after normalisation
  createCall,   \* per request: the create call in flight or done: the token it carried
  createResult, \* per request: what the create call returned or threw
  refreshCalls, \* per request: number of connectSalesforce calls the handler made
  createCalls,  \* per request: number of create calls the handler made
  res,          \* per request: the response sent
  console,      \* per owner: the console lines it wrote, in order
  overlap,      \* pairs of owners whose token refreshes were in flight together
  callState,    \* unit call of a normaliser function: "none", "ready", "returned"
  callArgs,     \* its arguments
  callResult    \* its return value

vars == <<env, conn, refresh, req, pc, trace, observed, norm, createCall,
          createResult, refreshCalls, createCalls, res, console, overlap,
          callState, callArgs, callResult>>

serverVars == <<env, conn, refresh, req, pc, trace, observed, norm, createCall,
                createResult, refreshCalls, createCalls, res, console, overlap>>

callVars == <<callState, callArgs, callResult>>

---------------------------------------------------------------------------
(* Helpers of the handlers                                                 *)

Bool(b) == [t |-> "boolean", b |-> b]

\* res.json(obj): JSON.stringify leaves out the keys whose value is undefined.
Json(obj) == [k \in {j \in DOMAIN obj : obj[j] # Undefined} |-> obj[k]]

\* A console line: its level and its fixed text (the values interpolated into
\* it are left out).
Log(level, msg) == [level |-> level, msg |-> msg]

\* console.log / console.error by owner o.
Write(o, level, msg) == [console EXCEPT ![o] = Append(@, Log(level, msg))]

Respond(r, status, body) == [res EXCEPT ![r] = [status |-> status, body |-> Json(body)]]

Enter(r, phases) == [trace EXCEPT ![r] = @ \o phases]

InFlight == {o \in Owners : refresh[o] = "inflight"}

\* The API-key middleware's test of a header against process.env.X_API_KEY.
KeyRejectedNoPresenceTest(apiKey, configured) == apiKey # configured

KeyRejected(apiKey, configured) == ~Truthy(apiKey) \/ apiKey # configured

\* The middleware: "next" or "403".
Middleware(q) ==
  IF q.path = "/health" THEN "next"
  ELSE IF KeyRejected(q.apiKey, env) THEN "403"
  ELSE "next"

\* Steps 1 to 4 of the /lead handler: the locals it computes from req.body, or
\* the error thrown on the way (a full_name that is no string has no trim()).
Normalize(body) ==
  LET fullName   == Or(Or(Get(body, "full_name"), Get(body, "Name")), Str("Unknown Lead"))
      rawSource  == Or(Get(body, "source"), Get(body, "Source"))
      rawProject == Or(Or(Get(body, "project_type"), Get(body, "Project Type")), Str(""))
      rawScope   == Or(Or(Or(Get(body, "scope"), Get(body, "description")),
                          Get(body, "Scope of Work")), Str(""))
  IN IF ~IsStr(fullName)
     THEN [ok |-> FALSE, message |-> "fullName.trim is not a function"]
     ELSE LET name             == splitName(fullName.v)
              leadSource       == mapLeadSource(rawSource)
              finalProjectType == detectProjectType(ToStringJS(rawProject), ToStringJS(rawScope))
          IN [ok |-> TRUE,
              rawSource |-> rawSource,
              leadSource |-> leadSource,
              finalProjectType |-> finalProjectType,
              leadPayload |->
                [FirstName |-> Str(name.firstName),
                 LastName |-> Str(name.lastName),
                 Company |-> Or(Or(Get(body, "company"), Get(body, "Company")), Str("Unknown")),
                 Email |-> Or(Or(Get(body, "email"), Get(body, "Email")), Undefined),
                 Phone |-> Or(Or(Get(body, "phone"), Get(body, "Phone")), Undefined),
                 Lead_Source__c |-> leadSource,
                 Project_Type__c |-> finalProjectType,
                 Scope_of_Work__c |-> rawScope]]

\* Normalize, tabulated over the bodies of the model.
Normalized == [b \in Bodies |-> Normalize(b)]

\* The body of the 201 response.
SuccessBody(id, n) ==
  [success |-> Bool(TRUE), leadId |-> Str(id), detectedProject |-> n.finalProjectType]

CatchResponseStatus200(message) == [status |-> 200, body |-> [error |-> Str(message)]]

\* The catch block's response: res.status(500).json({ error: err.message }).
CatchResponse(message) == [status |-> 500, body |-> [error |-> Str(message)]]

\* What conn.sobject('Lead').create may do, given the access token the
\* connection holds when the call is made: without a token the CRM rejects
\* the call; with one it returns a record id or throws.
CreateOutcomes(token) ==
  IF ~Truthy(token) THEN {[ok |-> FALSE, message |-> NoTokenError]}
  ELSE {[ok |-> TRUE, id |-> i] : i \in LeadIds}
       \cup {[ok |-> FALSE, message |-> m] : m \in CreateErrors}

\* What the token endpoint may answer to connectSalesforce: a token, a body
\* without access_token, or a failed fetch.
RefreshOutcomes ==
  {[ok |-> TRUE, access_token |-> t] : t \in Tokens}
  \cup {[ok |-> FALSE, message |-> m] : m \in {"Salesforce auth failed", "fetch failed"}}

InstanceUrl == Str("https://instance.salesforce.com")

EnvRefreshToken == Str("SF_REFRESH_TOKEN")

---------------------------------------------------------------------------
(* Initial state: the module has been loaded, so the start-up call of      *)
(* connectSalesforce has sent its token request and nothing has answered.  *)

ServerInit ==
  /\ env \in ApiKeyConfigs
  /\ conn = [accessToken |-> Undefined, instanceUrl |-> Undefined, refreshToken |-> Undefined]
  /\ refresh = [o \in Owners |-> IF o = Startup THEN "inflight" ELSE "none"]
  /\ req = [r \in Requests |-> NoRequest]
  /\ pc = [r \in Requests |-> "Idle"]
  /\ trace = [r \in Requests |-> <<"Idle">>]
  /\ observed = [r \in Requests |-> Undefined]
  /\ norm = [r \in Requests |-> NoCall]
  /\ createCall = [r \in Requests |-> NoCall]
  /\ createResult = [r \in Requests |-> NoCall]
  /\ refreshCalls = [r \in Requests |-> 0]
  /\ createCalls = [r \in Requests |-> 0]
  /\ res = [r \in Requests |-> NoResponse]
  /\ console = [o \in Owners |-> <<>>]
  /\ overlap = {}

NoUnitCall ==
  /\ callState = "none"
  /\ callArgs = <<>>
  /\ callResult = Undefined

Init == ServerInit /\ NoUnitCall

---------------------------------------------------------------------------
(* connectSalesforce                                                       *)

\* The call up to its first await: the token request is sent.
BeginRefresh(o) ==
  /\ refresh' = [refresh EXCEPT ![o] = "inflight"]
  /\ overlap' = overlap \cup {{o, p} : p \in InFlight \ {o}}

\* The token endpoint answers owner o's request and the call runs to its end.
\* A body without access_token and a failed fetch both end in the catch
\* block, which logs and returns.
RefreshReturns(o) ==
  /\ refresh[o] = "inflight"
  /\ \E out \in RefreshOutcomes :
       IF out.ok
       THEN /\ conn' = [accessToken |-> Str(out.access_token),
                        instanceUrl |-> InstanceUrl,
                        refreshToken |-> EnvRefreshToken]
            /\ refresh' = [refresh EXCEPT ![o] = "ok"]
            /\ console' = Write(o, "log", "Salesforce connected")
       ELSE /\ conn' = conn
            /\ refresh' = [refresh EXCEPT ![o] = "failed"]
            /\ console' = Write(o, "error", "Salesforce Connection Error:")
  /\ UNCHANGED <<env, req, pc, trace, observed, norm, createCall, createResult,
                 refreshCalls, createCalls, res, overlap>>
  /\ UNCHANGED callVars

---------------------------------------------------------------------------
(* Requests that never reach the /lead handler                             *)

\* Request r arrives; requests are numbered in their order of arrival.
Arrive(r, q) ==
  /\ pc[r] = "Idle"
  /\ req[r] = NoRequest
  /\ \A p \in Requests : p < r => pc[p] # "Idle"
  /\ req' = [req EXCEPT ![r] = q]

\* The middleware answers 403.  (The message has an en dash in the source; a
\* hyphen stands for it here.)
Forbidden(r) ==
  \E q \in InboundRequests :
    /\ Arrive(r, q)
    /\ Middleware(q) = "403"
    /\ res' = Respond(r, 403, [error |-> Str("Forbidden - Invalid API Key")])
    /\ pc' = [pc EXCEPT ![r] = "Responded"]
    /\ UNCHANGED <<env, conn, refresh, trace, observed, norm, createCall, createResult,
                   refreshCalls, createCalls, console, overlap>>
    /\ UNCHANGED callVars

\* GET /health
Health(r) ==
  \E q \in InboundRequests :
    /\ Arrive(r, q)
    /\ Middleware(q) = "next"
    /\ q.method = "GET" /\ q.path = "/health"
    /\ res' = Respond(r, 200, [status |-> Str("ok"),
                               salesforceConnected |-> Bool(Truthy(conn.accessToken))])
    /\ pc' = [pc EXCEPT ![r] = "Responded"]
    /\ UNCHANGED <<env, conn, refresh, trace, observed, norm, createCall, createResult,
                   refreshCalls, createCalls, console, overlap>>
    /\ UNCHANGED callVars

\* No route matches: Express answers 404.
NotFound(r) ==
  \E q \in InboundRequests :
    /\ Arrive(r, q)
    /\ Middleware(q) = "next"
    /\ <<q.method, q.path>> \notin {<<"POST", "/lead">>, <<"GET", "/health">>}
    /\ res' = Respond(r, 404, [error |-> Str("Not Found")])
    /\ pc' = [pc EXCEPT ![r] = "Responded"]
    /\ UNCHANGED <<env, conn, refresh, trace, observed, norm, createCall, createResult,
                   refreshCalls, createCalls, console, overlap>>
    /\ UNCHANGED callVars

---------------------------------------------------------------------------
(* POST /lead                                                              *)

IsLead(q) == q.method = "POST" /\ q.path = "/lead" /\ Middleware(q) = "next"

\* The handler from "1. Get Raw Data" to the create call (the code runs it
\* without yielding): either normalisation throws and the catch block
\* answers, or the payload is logged and the create call is made with the
\* token the connection holds at that moment.
Proceed(r, body) ==
  LET n == Normalized[body]
  IN /\ norm' = [norm EXCEPT ![r] = n]
     /\ IF n.ok
        THEN /\ console' = Write(r, "log", "Sending Payload")
             /\ createCall' = [createCall EXCEPT ![r] = [token |-> conn.accessToken]]
             /\ createCalls' = [createCalls EXCEPT ![r] = @ + 1]
             /\ pc' = [pc EXCEPT ![r] = "Submitting"]
             /\ trace' = Enter(r, <<"Normalizing", "Submitting">>)
             /\ res' = res
        ELSE /\ console' = Write(r, "error", "ERROR:")
             /\ res' = [res EXCEPT ![r] = CatchResponse(n.message)]
             /\ pc' = [pc EXCEPT ![r] = "Responded"]
             /\ trace' = Enter(r, <<"Normalizing", "Responded">>)
             /\ UNCHANGED <<createCall, createCalls>>

\* The handler starts and finds a token cached.
LeadCached(r) ==
  \E q \in InboundRequests :
    /\ Arrive(r, q)
    /\ IsLead(q)
    /\ Truthy(conn.accessToken)
    /\ observed' = [observed EXCEPT ![r] = conn.accessToken]
    /\ Proceed(r, q.body)
    /\ UNCHANGED <<env, conn, refresh, createResult, refreshCalls, overlap>>
    /\ UNCHANGED callVars

LeadRefreshNoAwait(r) ==
  \E q \in InboundRequests :
    /\ Arrive(r, q)
    /\ IsLead(q)
    /\ ~Truthy(conn.accessToken)
    /\ observed' = [observed EXCEPT ![r] = conn.accessToken]
    /\ refreshCalls' = [refreshCalls EXCEPT ![r] = @ + 1]
    /\ BeginRefresh(r)
    /\ Proceed(r, q.body)
    /\ UNCHANGED <<env, conn, createResult>>
    /\ UNCHANGED callVars

LeadRefreshSingleFlight(r) ==
  \E q \in InboundRequests :
    /\ Arrive(r, q)
    /\ IsLead(q)
    /\ ~Truthy(conn.accessToken)
    /\ observed' = [observed EXCEPT ![r] = conn.accessToken]
    /\ IF InFlight = {}
       THEN /\ refreshCalls' = [refreshCalls EXCEPT ![r] = @ + 1]
            /\ BeginRefresh(r)
       ELSE UNCHANGED <<refreshCalls, refresh, overlap>>
    /\ pc' = [pc EXCEPT ![r] = "Authorizing"]
    /\ trace' = Enter(r, <<"Authorizing">>)
    /\ UNCHANGED <<env, conn, norm, createCall, createResult, createCalls, res, console>>
    /\ UNCHANGED callVars

\* The handler starts and finds no token: it calls connectSalesforce and
\* awaits it, whatever other refreshes are in flight.
LeadRefresh(r) ==
  \E q \in InboundRequests :
    /\ Arrive(r, q)
    /\ IsLead(q)
    /\ ~Truthy(conn.accessToken)
    /\ observed' = [observed EXCEPT ![r] = conn.accessToken]
    /\ refreshCalls' = [refreshCalls EXCEPT ![r] = @ + 1]
    /\ BeginRefresh(r)
    /\ pc' = [pc EXCEPT ![r] = "Authorizing"]
    /\ trace' = Enter(r, <<"Authorizing">>)
    /\ UNCHANGED <<env, conn, norm, createCall, createResult, createCalls, res, console>>
    /\ UNCHANGED callVars

\* The awaited connectSalesforce call has returned (it never throws): the
\* handler goes on, with or without a token.
Resume(r) ==
  /\ pc[r] = "Authorizing"
  /\ refresh[r] \in {"ok", "failed"}
  /\ Proceed(r, req[r].body)
  /\ UNCHANGED <<env, conn, refresh, req, observed, createResult, refreshCalls, overlap>>
  /\ UNCHANGED callVars

\* The create call returns a record id: 201.
CreateReturns(r) ==
  /\ pc[r] = "Submitting"
  /\ \E out \in CreateOutcomes(createCall[r].token) :
       /\ out.ok
       /\ createResult' = [createResult EXCEPT ![r] = out]
       /\ console' = Write(r, "log", "Success: Lead Created")
       /\ res' = Respond(r, 201, SuccessBody(out.id, norm[r]))
  /\ pc' = [pc EXCEPT ![r] = "Responded"]
  /\ trace' = Enter(r, <<"Responded">>)
  /\ UNCHANGED <<env, conn, refresh, req, observed, norm, createCall, refreshCalls,
                 createCalls, overlap>>
  /\ UNCHANGED callVars

CreateThrowsRetry(r) ==
  /\ pc[r] = "Submitting"
  /\ \E out \in CreateOutcomes(createCall[r].token) :
       /\ ~out.ok
       /\ createResult' = [createResult EXCEPT ![r] = out]
       /\ console' = Write(r, "error", "ERROR:")
       /\ IF createCalls[r] < 2
          THEN /\ createCalls' = [createCalls EXCEPT ![r] = @ + 1]
               /\ UNCHANGED <<res, pc, trace>>
          ELSE /\ res' = [res EXCEPT ![r] = CatchResponse(out.message)]
               /\ pc' = [pc EXCEPT ![r] = "Responded"]
               /\ trace' = Enter(r, <<"Responded">>)
               /\ UNCHANGED createCalls
  /\ UNCHANGED <<env, conn, refresh, req, observed, norm, createCall, refreshCalls, overlap>>
  /\ UNCHANGED callVars

\* The create call throws: the catch block logs and answers 500 with the
\* error's message.
CreateThrows(r) ==
  /\ pc[r] = "Submitting"
  /\ \E out \in CreateOutcomes(createCall[r].token) :
       /\ ~out.ok
       /\ createResult' = [createResult EXCEPT ![r] = out]
       /\ console' = Write(r, "error", "ERROR:")
       /\ res' = [res EXCEPT ![r] = CatchResponse(out.message)]
  /\ pc' = [pc EXCEPT ![r] = "Responded"]
  /\ trace' = Enter(r, <<"Responded">>)
  /\ UNCHANGED <<env, conn, refresh, req, observed, norm, createCall, refreshCalls,
                 createCalls, overlap>>
  /\ UNCHANGED callVars

Next ==
  \/ \E o \in Owners : RefreshReturns(o)
  \/ \E r \in Requests : Forbidden(r)
  \/ \E r \in Requests : Health(r)
  \/ \E r \in Requests : NotFound(r)
  \/ \E r \in Requests : LeadCached(r)
  \/ \E r \in Requests : LeadRefresh(r)
  \/ \E r \in Requests : Resume(r)
  \/ \E r \in Requests : CreateReturns(r)
  \/ \E r \in Requests : CreateThrows(r)

Spec == Init /\ [][Next]_vars

---------------------------------------------------------------------------
(* The normaliser functions called on their own                            *)

\* Longest run of white space put around or between the words of an input.
MaxPad == 1

\* Most words in a full name.
MaxNameTokens == 3

\* Most phrases in a scope text.
MaxScopePhrases == 1

RECURSIVE Pads(_)
\* The strings of at most n spaces and tabs.
Pads(n) == IF n = 0 THEN {""} ELSE {""} \cup {c \o p : c \in {" ", "\t"}, p \in Pads(n - 1)}

\* Separators between the words of a name: one space, two spaces, a tab.
NameSeparators == {" ", "  ", "\t"}

RECURSIVE Names(_)
\* Full names of exactly n words.
Names(n) ==
  IF n = 0 THEN {""}
  ELSE IF n = 1 THEN {"Jane", "Doe"}
  ELSE {s \o sep \o w : s \in Names(n - 1), sep \in NameSeparators, w \in {"Jane", "Doe"}}

NameInputs ==
  {Undefined} \cup
  {Str(l \o s \o t) : l \in Pads(MaxPad), t \in Pads(MaxPad),
                      s \in UNION {Names(n) : n \in 0..MaxNameTokens}}

SourceWords ==
  {"Google LSA", "Google Calls", "Google Form", "Yelp", "Houzz", "Angi", "Porch",
   "Thumbtack", "Meta", "google lsa", "GOOGLE CALLS", "google form", "YELP", "houzz",
   "angi", "PORCH", "thumbtack", "meta", "Craigslist", "google", "Google  LSA",
   "yelp.", "Referral", "constructor", "Constructor", "__proto__", "toString"}

SourceInputs ==
  {Undefined, Str(""), Num(7)} \cup
  {Str(l \o w \o t) : l \in Pads(MaxPad), t \in Pads(MaxPad), w \in SourceWords}

ProjectPhrases ==
  {"", "Kitchen Remodeling", "Bathroom Remodeling", "Full Home", "Whole House",
   "New Room", "Home Interior", "Interior Design", "Kitchen", "Bath", "Bathroom",
   "Basement", "Exterior", "Deck", "Roof", "ADU", "Addition", "Remodel",
   "remodeling", "Painting", "graduate", "home", "interior"}

RECURSIVE Scopes(_)
\* Scope texts of at most n phrases.
Scopes(n) ==
  IF n = 0 THEN {""}
  ELSE Scopes(n - 1) \cup {s \o " " \o w : s \in Scopes(n - 1) \ {""}, w \in ProjectPhrases}
                     \cup ProjectPhrases

UnitCalls ==
  {[fn |-> "splitName", args |-> <<x>>] : x \in NameInputs}
  \cup {[fn |-> "mapLeadSource", args |-> <<x>>] : x \in SourceInputs}
  \cup {[fn |-> "detectProjectType", args |-> <<Str(a), Str(b)>>] :
          a \in ProjectPhrases, b \in Scopes(MaxScopePhrases)}

UnitInit ==
  /\ ServerInit
  /\ callState = "ready"
  /\ callArgs \in UnitCalls
  /\ callResult = Undefined

Returns(value) ==
  /\ callState' = "returned"
  /\ callResult' = value
  /\ UNCHANGED callArgs
  /\ UNCHANGED serverVars

\* splitName(x): an undefined argument takes the default ''.
CallSplitName ==
  /\ callState = "ready"
  /\ callArgs.fn = "splitName"
  /\ Returns(splitName(IF callArgs.args[1] = Undefined THEN "" ELSE callArgs.args[1].v))

CallMapLeadSource ==
  /\ callState = "ready"
  /\ callArgs.fn = "mapLeadSource"
  /\ Returns(mapLeadSource(callArgs.args[1]))

CallDetectProjectType ==
  /\ callState = "ready"
  /\ callArgs.fn = "detectProjectType"
  /\ Returns(detectProjectType(callArgs.args[1].v, callArgs.args[2].v))

UnitNext == CallSplitName \/ CallMapLeadSource \/ CallDetectProjectType

UnitSpec == UnitInit /\ [][UnitNext]_vars

---------------------------------------------------------------------------
(* Properties of the server                                                *)

Range(f) == {f[i] : i \in DOMAIN f}

Succeeded(r) == createResult[r] # NoCall /\ createResult[r].ok

Threw(r) == createResult[r] # NoCall /\ ~createResult[r].ok

\* C1: every POST /lead request that passed the key check and whose create
\* call succeeded is answered 201 with success = true, leadId = the id the
\* CRM returned, assignedSource = the lead source classified for the request
\* and, when present, detectedProject = the classified project type.
C1_SuccessCarriesIdAndSource ==
  \A r \in Requests :
    (pc[r] = "Responded" /\ Succeeded(r)) =>
      /\ res[r].status = 201
      /\ "success" \in DOMAIN res[r].body /\ res[r].body["success"] = Bool(TRUE)
      /\ "leadId" \in DOMAIN res[r].body
      /\ res[r].body["leadId"] = Str(createResult[r].id)
      /\ "assignedSource" \in DOMAIN res[r].body
      /\ res[r].body["assignedSource"] = norm[r].leadSource
      /\ ("detectedProject" \in DOMAIN res[r].body =>
            res[r].body["detectedProject"] = norm[r].finalProjectType)

\* A request outside /health whose x-api-key is missing or is not the
\* configured key.
BadKey(q) == q.path # "/health" /\ (q.apiKey = Undefined \/ q.apiKey # env)

C3_SingleAttempt ==
  \A r \in Requests :
    /\ createCalls[r] <= 1
    /\ refreshCalls[r] <= 1
    /\ Threw(r) =>
         /\ pc[r] = "Responded"
         /\ res[r] = [status |-> 500, body |-> [error |-> Str(createResult[r].message)]]

C3_Witness ==
  \E r \in Requests :
    /\ Threw(r) /\ createResult[r].message \in CreateErrors
    /\ refreshCalls[r] = 1 /\ createCalls[r] = 1
    /\ res[r].status = 500

\* The handler's refresh failed and it went on without a token.
TokenAbsentAfterRefresh(r) ==
  /\ refresh[r] = "failed"
  /\ createCall[r] = NoCall \/ ~Truthy(createCall[r].token)

\* C4: a request whose handler still has no token after its refresh attempt
\* never ends in 201; it is answered 500 with an error message.
C4_NoTokenNoSuccess ==
  \A r \in Requests :
    (pc[r] = "Responded" /\ TokenAbsentAfterRefresh(r)) =>
      /\ res[r].status = 500
      /\ DOMAIN res[r].body = {"error"}
      /\ res[r].body["error"].t = "string" /\ res[r].body["error"].v # ""

C4_Witness ==
  \E r \in Requests :
    /\ pc[r] = "Responded" /\ TokenAbsentAfterRefresh(r)
    /\ createCalls[r] = 1 /\ Threw(r)
    /\ createResult[r].message = NoTokenError

\* C6: when classification falls back to 'Referral' for a non-empty source
\* that matches no label, a warning is logged for that request.
C6_FallbackWarns ==
  \A r \in Requests :
    (norm[r] # NoCall /\ norm[r].ok /\ Truthy(norm[r].rawSource)
       /\ norm[r].leadSource = Str("Referral")) =>
      \E i \in DOMAIN console[r] : console[r][i].level = "warn"

Rank(phase) ==
  CASE phase = "Idle" -> 1
    [] phase = "Authorizing" -> 2
    [] phase = "Normalizing" -> 3
    [] phase = "Submitting" -> 4
    [] phase = "Responded" -> 5

\* C9: the phases of a /lead request come in the order Idle, Authorizing,
\* Normalizing, Submitting, Responded; the handler calls connectSalesforce
\* exactly when it found no token on entry; the create call is never made
\* while that refresh is in flight; a handler that found a token makes no
\* refresh.
C9_PhaseOrder ==
  \A r \in Requests :
    LET t == trace[r]
    IN /\ t[1] = "Idle"
       /\ \A i \in 1..(Len(t) - 1) : Rank(t[i]) < Rank(t[i + 1])
       /\ ("Submitting" \in Range(t) => "Normalizing" \in Range(t))
       /\ Len(t) > 1 =>
            /\ ("Authorizing" \in Range(t)) <=> ~Truthy(observed[r])
            /\ refreshCalls[r] = IF Truthy(observed[r]) THEN 0 ELSE 1
            /\ Truthy(observed[r]) => refresh[r] = "none"
       /\ Len(t) = 1 => refreshCalls[r] = 0 /\ refresh[r] = "none"
       /\ createCalls[r] > 0 => refresh[r] # "inflight"

C9_Witness ==
  /\ \E r \in Requests :
       trace[r] = <<"Idle", "Authorizing", "Normalizing", "Submitting", "Responded">>
  /\ \E r \in Requests :
       trace[r] = <<"Idle", "Normalizing", "Submitting", "Responded">>

\* C10: token refreshes are not serialised: a handler that finds no token
\* sends its own token request whatever refreshes are in flight, and every
\* refresh that obtains a token writes it to the shared connection; so
\* several refreshes can be in flight together and each write.
C10_RefreshesNotSerialized ==
  [][/\ \A r \in Requests :
          (pc[r] = "Idle" /\ pc'[r] = "Authorizing") =>
            /\ refresh'[r] = "inflight"
            /\ InFlight' = InFlight \cup {r}
     /\ \A o \in Owners :
          (refresh[o] = "inflight" /\ refresh'[o] = "ok") =>
            /\ Truthy(conn'.accessToken)
            /\ conn'.refreshToken = EnvRefreshToken]_vars

C10_Witness ==
  \E a, b \in Requests :
    /\ a # b
    /\ {a, b} \in overlap
    /\ refresh[a] = "ok" /\ refresh[b] = "ok"

---------------------------------------------------------------------------
(* Properties of the normaliser functions                                  *)

Returned(fn) == callState = "returned" /\ callArgs.fn = fn

\* The enumerated lead source labels.
Labels ==
  {"Google LSA", "Google Calls", "Google Form", "Yelp", "Houzz", "Angi", "Porch",
   "Thumbtack", "Meta"}

\* The label an input names, if any: the one whose lower-cased form is the
\* trimmed, lower-cased input.
LabelsNamedBy(x) ==
  IF x.t # "string" THEN {}
  ELSE {l \in Labels : ToLowerCase(l) = ToLowerCase(Trim(x.v))}

\* C5: mapLeadSource returns a label of the enumerated set or 'Referral':
\* the label whose lower-cased form equals the trimmed, lower-cased input,
\* and 'Referral' for every other input, absent and empty input included.
C5_SourceIsLabelOrReferral ==
  Returned("mapLeadSource") =>
    LET named == LabelsNamedBy(callArgs.args[1])
    IN /\ callResult \in {Str(l) : l \in Labels \cup {"Referral"}}
       /\ named # {} => callResult \in {Str(l) : l \in named}
       /\ named = {} => callResult = Str("Referral")

RECURSIVE WordsFrom(_, _, _)
\* The maximal runs of non-white-space characters of s, from index i on.
WordsFrom(s, i, cur) ==
  IF i > Len(s) THEN (IF cur = "" THEN <<>> ELSE <<cur>>)
  ELSE IF IsWhiteSpace(CharAt(s, i))
       THEN (IF cur = "" THEN <<>> ELSE <<cur>>) \o WordsFrom(s, i + 1, "")
       ELSE WordsFrom(s, i + 1, cur \o CharAt(s, i))

\* The white-space-separated tokens of s.
Words(s) == WordsFrom(s, 1, "")

\* C8: splitName splits on white space: the first name is the first token
\* and the last name the remaining tokens joined by single spaces, whatever
\* white space separates them; empty or white-space-only input gives
\* 'Unknown' and 'Lead'; both names are never empty.
C8_SplitOnWhitespace ==
  Returned("splitName") =>
    LET x == callArgs.args[1]
        w == Words(IF x = Undefined THEN "" ELSE x.v)
    IN /\ Len(w) = 0 => callResult.firstName = "Unknown" /\ callResult.lastName = "Lead"
       /\ Len(w) >= 1 => callResult.firstName = w[1]
       /\ Len(w) >= 2 => callResult.lastName = Join(Tail(w), " ")
       /\ callResult.firstName # "" /\ callResult.lastName # ""

\* The priority table of the project types: pattern and value, in order.
PriorityTable ==
  << <<"kitchen remodeling", "Kitchen remodeling">>,
     <<"bathroom remodeling", "Bathroom remodeling">>,
     <<"full home", "Full Home Remodel">>,
     <<"whole house", "Full Home Remodel">>,
     <<"new room", "New room addition">>,
     <<"home interior", "Home interior design">>,
     <<"interior design", "Home interior design">>,
     <<"kitchen", "Kitchen">>,
     <<"bath", "Bathroom">>,
     <<"basement", "Basement">>,
     <<"exterior", "Exterior">>,
     <<"deck", "Exterior">>,
     <<"roof", "Exterior">>,
     <<"adu", "ADU">>,
     <<"addition", "Addition">>,
     <<"remodel", "Remodeling">> >>

\* The rows of the table whose pattern occurs in text.
Matching(text) == {i \in DOMAIN PriorityTable : Includes(text, PriorityTable[i][1])}

\* C7: detectProjectType returns the value of the first pattern of the
\* priority table that occurs in the lower-cased, space-joined text; a phrase
\* wins over the single word it contains, text with only 'remodel' gives
\* 'Remodeling', and text with no pattern gives undefined, not a string.
C7_FirstPatternWins ==
  Returned("detectProjectType") =>
    LET text == ToLowerCase(callArgs.args[1].v \o " " \o callArgs.args[2].v)
        hits == Matching(text)
    IN /\ hits = {} => callResult = Undefined
       /\ hits # {} =>
            LET first == CHOOSE i \in hits : \A j \in hits : i <= j
            IN callResult = Str(PriorityTable[first][2])
       /\ Includes(text, "kitchen remodeling") => callResult = Str("Kitchen remodeling")
       /\ (Includes(text, "bathroom remodeling") /\ ~Includes(text, "kitchen remodeling")) =>
            callResult = Str("Bathroom remodeling")
       /\ hits = {16} => callResult = Str("Remodeling")

C7_Witness ==
  /\ Returned("detectProjectType")
  /\ callArgs.args[1] = Str("Kitchen")
  /\ callArgs.args[2] = Str("remodeling")
  /\ callResult = Str("Kitchen remodeling")

===========================================================================
